---- MODULE Spec2Model ----
(***************************************************************************)
(* A model of the block decoder of binarygcode (src/src/block.rs): the     *)
(* tag types BlockKind and CompressionAlgorithm, the BlockDeserialiser     *)
(* with its header accessors, block_size, header_buf, data_buf and         *)
(* deserialise, and the incremental Deserialiser (digest / deserialise)    *)
(* that the test in src/src/tests.rs drives.                               *)
(*                                                                         *)
(* Numbers.  A byte is an integer in 0..255.  A usize is 64 bits wide; a   *)
(* value v >= 2^63 is written here as the negative integer v - 2^64, so a  *)
(* subtraction that wraps below zero gives a negative representative and   *)
(* an addition that carries out of 64 bits brings it back above zero.      *)
(* Every operand of the model is far smaller than 2^31, which makes this   *)
(* representation exact.  Whether a wrapping operation panics or wraps is  *)
(* decided by the build (overflow checks on or off).                       *)
(***************************************************************************)
EXTENDS Integers, Sequences, FiniteSets, TLC

VARIABLES
    buf,              \* BlockDeserialiser.buf: the bytes of the block
    checksum,         \* BlockDeserialiser.checksum: "None" or "Crc32"
    overflow_checks,  \* the build: TRUE when arithmetic overflow panics
    op,               \* the method called last
    res,              \* what that call returned (Ok, Err or a panic)
    tag_in,           \* the 16-bit value handed to the tag constructors
    tag_out,          \* what the tag constructors returned for it
    stream,           \* the file: its bytes, and where each block ends
    fed,              \* how many bytes of the file have been digested
    inner,            \* Deserialiser: the rolling buffer
    last,             \* Deserialiser: the result of the last deserialise
    blocks,           \* the decoded blocks returned so far, in order
    pc,               \* the position of the caller's loop
    input             \* the bytes the caller's reader supplies for the block

vars == <<buf, checksum, overflow_checks, op, res, tag_in, tag_out,
          stream, fed, inner, last, blocks, pc, input>>

blockVars == <<buf, checksum, overflow_checks, op, res, input>>
tagVars == <<tag_in, tag_out>>
streamVars == <<stream, fed, inner, last, blocks, pc>>

-----------------------------------------------------------------------------
(* Bounds of the model. *)

\* The largest uncompressed_size / compressed_size a caller writes in a header.
MaxSize == 2

\* data_buf is only called while the grown buffer stays within this length.
MaxBufLen == 26

-----------------------------------------------------------------------------
(* Results: Result<T, BlockDeserialiserError>, or a panic that ends the     *)
(* call.  No method changes the buffer before it panics, so a panic leaves  *)
(* the BlockDeserialiser as it was; it is recorded as the call's outcome.   *)

Ok(s, n, d) == [tag |-> "Ok", err |-> "", str |-> s, num |-> n, data |-> d]
OkNum(n) == Ok("", n, <<>>)
OkVariant(s) == Ok(s, 0, <<>>)
OkBytes(d) == Ok("", 0, d)
Err(e, n) == [tag |-> "Err", err |-> e, str |-> "", num |-> n, data |-> <<>>]
Panic(msg) == [tag |-> "Panic", err |-> msg, str |-> "", num |-> 0, data |-> <<>>]
NoResult == [tag |-> "None", err |-> "", str |-> "", num |-> 0, data |-> <<>>]

IsOk(r) == r.tag = "Ok"

-----------------------------------------------------------------------------
(* Integer conversions. *)

u16_from_le_bytes(b) == b[1] + 256 * b[2]
u16_to_le_bytes(v) == <<v % 256, v \div 256>>
u16_to_be_bytes(v) == <<v \div 256, v % 256>>
u32_from_le_bytes(b) == b[1] + 256 * b[2] + 65536 * b[3] + 16777216 * b[4]
u32_to_le_bytes(v) ==
    <<v % 256, (v \div 256) % 256, (v \div 65536) % 256, v \div 16777216>>

\* a - b on usize: panics with overflow checks, wraps without.
usize_sub(a, b, oc) ==
    IF a >= 0 /\ a < b
    THEN (IF oc THEN Panic("attempt to subtract with overflow") ELSE OkNum(a - b))
    ELSE OkNum(a - b)

\* a + b on usize: a negative representative plus enough to pass zero carries
\* out of 64 bits.
usize_add(a, b, oc) ==
    IF a < 0 /\ a + b >= 0
    THEN (IF oc THEN Panic("attempt to add with overflow") ELSE OkNum(a + b))
    ELSE OkNum(a + b)

\* &s[lo..=hi]: the index is checked, and out of range it panics.
SliceIncl(s, lo, hi) ==
    IF hi + 1 > Len(s) \/ lo > hi + 1
    THEN Panic("range end index out of range for slice")
    ELSE OkBytes(SubSeq(s, lo + 1, hi + 1))

\* &s[lo..hi]
SliceExcl(s, lo, hi) ==
    IF lo < 0 \/ hi < 0 \/ lo > hi \/ hi > Len(s)
    THEN Panic("slice index out of range")
    ELSE OkBytes(SubSeq(s, lo + 1, hi))

Zeros(n) == [i \in 1..n |-> 0]

-----------------------------------------------------------------------------
(* BlockKind *)

BlockKinds ==
    {"FileMetadata", "GCode", "SlicerMetadata", "PrinterMetadata",
     "PrintMetadata", "Thumbnail"}

\* BlockKind::new with an unknown value taken for the first variant.
BlockKind_new_defaulting(value) ==
    CASE value = 0 -> OkVariant("FileMetadata")
      [] value = 1 -> OkVariant("GCode")
      [] value = 2 -> OkVariant("SlicerMetadata")
      [] value = 3 -> OkVariant("PrinterMetadata")
      [] value = 4 -> OkVariant("PrintMetadata")
      [] value = 5 -> OkVariant("Thumbnail")
      [] OTHER -> OkVariant("FileMetadata")

BlockKind_new(value) ==
    CASE value = 0 -> OkVariant("FileMetadata")
      [] value = 1 -> OkVariant("GCode")
      [] value = 2 -> OkVariant("SlicerMetadata")
      [] value = 3 -> OkVariant("PrinterMetadata")
      [] value = 4 -> OkVariant("PrintMetadata")
      [] value = 5 -> OkVariant("Thumbnail")
      [] OTHER -> Err("UnsupportedBlockKind", value)

BlockKind_to_le_bytes(k) ==
    CASE k = "FileMetadata" -> u16_to_le_bytes(0)
      [] k = "GCode" -> u16_to_be_bytes(1)
      [] k = "SlicerMetadata" -> u16_to_le_bytes(1)
      [] k = "PrinterMetadata" -> u16_to_le_bytes(2)
      [] k = "PrintMetadata" -> u16_to_le_bytes(3)
      [] k = "Thumbnail" -> u16_to_le_bytes(4)

BlockKind_from_le_bytes(bytes) == BlockKind_new(u16_from_le_bytes(bytes))

\* parameter_byte_size without the Thumbnail arm.
parameter_byte_size_all_two(k) == 2

\* parameter_byte_size with the two widths exchanged.
parameter_byte_size_exchanged(k) == IF k = "Thumbnail" THEN 2 ELSE 6

parameter_byte_size(k) == IF k = "Thumbnail" THEN 6 ELSE 2

-----------------------------------------------------------------------------
(* CompressionAlgorithm *)

CompressionAlgorithms == {"None", "Deflate", "Heatshrink11_4", "Heatshrink12_4"}

CompressionAlgorithm_new(value) ==
    CASE value = 0 -> OkVariant("None")
      [] value = 1 -> OkVariant("Deflate")
      [] value = 2 -> OkVariant("Heatshrink11_4")
      [] value = 3 -> OkVariant("Heatshrink12_4")
      [] OTHER -> Err("UnsupportedCompressionAlgorithm", value)

CompressionAlgorithm_to_le_bytes(c) ==
    CASE c = "None" -> u16_to_le_bytes(0)
      [] c = "Deflate" -> u16_to_be_bytes(1)
      [] c = "Heatshrink11_4" -> u16_to_le_bytes(2)
      [] c = "Heatshrink12_4" -> u16_to_le_bytes(3)

CompressionAlgorithm_from_le_bytes(bytes) ==
    CompressionAlgorithm_new(u16_from_le_bytes(bytes))

-----------------------------------------------------------------------------
(* FileChecksum (crate::file_header): the width of the checksum trailer. *)

FileChecksums == {"None", "Crc32"}

checksum_byte_size(cs) == IF cs = "Crc32" THEN 4 ELSE 0

-----------------------------------------------------------------------------
(* BlockDeserialiser: the accessors.  b is self.buf. *)

try_from_slice(N, s) ==
    IF Len(s) = N THEN OkBytes(s) ELSE Err("TryFromSliceError", 0)

kind(b) ==
    LET sl == SliceIncl(b, 0, 1) IN
    IF ~IsOk(sl) THEN sl
    ELSE LET bytes == try_from_slice(2, sl.data) IN
         IF ~IsOk(bytes) THEN bytes ELSE BlockKind_from_le_bytes(bytes.data)

compression(b) ==
    LET sl == SliceIncl(b, 2, 3) IN
    IF ~IsOk(sl) THEN sl
    ELSE LET bytes == try_from_slice(2, sl.data) IN
         IF ~IsOk(bytes) THEN bytes
         ELSE CompressionAlgorithm_from_le_bytes(bytes.data)

compressed_size(b) ==
    LET ca == compression(b) IN
    IF ~IsOk(ca) THEN ca
    ELSE IF ca.str = "None" THEN Err("IsNotCompressed", 0)
    ELSE LET sl == SliceIncl(b, 8, 11) IN
         IF ~IsOk(sl) THEN sl
         ELSE LET bytes == try_from_slice(4, sl.data) IN
              IF ~IsOk(bytes) THEN bytes
              ELSE OkNum(u32_from_le_bytes(bytes.data))

uncompressed_size(b) ==
    LET sl == SliceIncl(b, 4, 7) IN
    IF ~IsOk(sl) THEN sl
    ELSE LET bytes == try_from_slice(4, sl.data) IN
         IF ~IsOk(bytes) THEN bytes
         ELSE OkNum(u32_from_le_bytes(bytes.data))

block_size(b, cs, oc) ==
    LET k == kind(b) IN
    IF ~IsOk(k) THEN k
    ELSE
    LET size1 == 0 + parameter_byte_size(k.str)
        size2 == size1 + checksum_byte_size(cs)
        c == compression(b)
    IN
    IF ~IsOk(c) THEN c
    ELSE IF c.str = "None"
    THEN LET size3 == usize_sub(size2, 4, oc) IN
         IF ~IsOk(size3) THEN size3
         ELSE LET us == uncompressed_size(b) IN
              IF ~IsOk(us) THEN us ELSE usize_add(size3.num, us.num, oc)
    ELSE LET cz == compressed_size(b) IN
         IF ~IsOk(cz) THEN cz ELSE usize_add(size2, cz.num, oc)


-----------------------------------------------------------------------------
(* BlockDeserialiser: the buffers handed to the caller. *)

\* header_buf: a fresh buffer of twelve zero bytes.
header_buf == Zeros(12)

\* data_buf: the buffer grown by block_size() zero bytes.  The result carries
\* the grown buffer in data; an error or a panic leaves the buffer as it was.
data_buf(b, cs, oc) ==
    LET additional == block_size(b, cs, oc) IN
    IF ~IsOk(additional) THEN additional
    ELSE IF additional.num < 0 THEN Panic("capacity overflow")
    ELSE LET grown == b \o Zeros(additional.num) IN
         IF 12 > Len(grown) THEN Panic("range start index out of range for slice")
         ELSE OkBytes(grown)

-----------------------------------------------------------------------------
(* BlockDeserialiser: decoding. *)

deserialise_data(b, start, end) ==
    LET c == compression(b) IN
    IF ~IsOk(c) THEN c
    ELSE IF c.str = "None" THEN SliceExcl(b, start, end)
    ELSE Panic("not yet implemented")

\* The end of the data: the whole buffer, or the buffer less the four bytes
\* of the CRC, which are sliced off and not looked at.
data_end(b, cs, oc) ==
    IF cs = "None" THEN OkNum(Len(b))
    ELSE LET end == usize_sub(Len(b), 4, oc) IN
         IF ~IsOk(end) THEN end
         ELSE IF end.num < 0 \/ end.num > Len(b)
              THEN Panic("range start index out of range for slice")
              ELSE end

deserialise_thumbnail_data(b, cs, oc) ==
    LET c == compression(b) IN
    IF ~IsOk(c) THEN c
    ELSE
    LET idx == IF c.str = "None" THEN 8 ELSE 12
        sl == SliceIncl(b, idx, idx + 1)
    IN
    IF ~IsOk(sl) THEN sl
    ELSE
    LET bytes == try_from_slice(2, sl.data) IN
    IF ~IsOk(bytes) THEN bytes
    ELSE
    LET encoding == u16_from_le_bytes(bytes.data) IN
    IF encoding > 2 THEN Err("EncodingError", encoding)
    ELSE
    LET start == idx + 2
        end == data_end(b, cs, oc)
    IN
    IF ~IsOk(end) THEN end ELSE deserialise_data(b, start, end.num)

deserialise_ini_data(b, cs, oc) ==
    LET c == compression(b) IN
    IF ~IsOk(c) THEN c
    ELSE
    LET idx == IF c.str = "None" THEN 8 ELSE 12
        sl == SliceIncl(b, idx, idx + 1)
    IN
    IF ~IsOk(sl) THEN sl
    ELSE
    LET bytes == try_from_slice(2, sl.data) IN
    IF ~IsOk(bytes) THEN bytes
    ELSE
    LET encoding == u16_from_le_bytes(bytes.data) IN
    IF encoding # 0 THEN Err("EncodingError", encoding)
    ELSE
    LET start == idx + 2
        end == data_end(b, cs, oc)
    IN
    IF ~IsOk(end) THEN end ELSE deserialise_data(b, start, end.num)

deserialise(b, cs, oc) ==
    LET bs == block_size(b, cs, oc) IN
    IF ~IsOk(bs) THEN bs
    ELSE
    LET buf_length_check == usize_add(bs.num, 12, oc) IN
    IF ~IsOk(buf_length_check) THEN buf_length_check
    ELSE IF buf_length_check.num # Len(b) THEN Err("DataLengthMissMatch", 0)
    ELSE
    LET k == kind(b) IN
    IF ~IsOk(k) THEN k
    ELSE CASE k.str = "FileMetadata" -> deserialise_ini_data(b, cs, oc)
           [] k.str = "GCode" -> Panic("not yet implemented")
           [] k.str = "PrintMetadata" -> deserialise_ini_data(b, cs, oc)
           [] k.str = "PrinterMetadata" -> deserialise_ini_data(b, cs, oc)
           [] k.str = "SlicerMetadata" -> deserialise_ini_data(b, cs, oc)
           [] k.str = "Thumbnail" -> deserialise_thumbnail_data(b, cs, oc)

-----------------------------------------------------------------------------
(* What the caller writes into the slices header_buf and data_buf hand out. *)

\* Tag values: every variant and the first unknown value.
KindInputs == 0 .. 6
CompressionInputs == 0 .. 4
SizeInputs == 0 .. MaxSize
\* Bytes 8..9 of the header: the low half of compressed_size, and, without
\* compression, the place the encoding tag is read from.
Field8Inputs == 0 .. 3
\* Bytes 10..11 of the header: zero, or the two bytes 7, 8.
Field10Inputs == {0, 2055}

HeaderBytes(kv, cv, us, f8, f10) ==
    u16_to_le_bytes(kv) \o u16_to_le_bytes(cv) \o u32_to_le_bytes(us)
        \o u16_to_le_bytes(f8) \o u16_to_le_bytes(f10)

\* The data region as the caller fills it: an encoding tag in its first two
\* bytes, then either zeros or bytes that differ from place to place.
EncodingInputs == 0 .. 3

FillBytes(n, enc) ==
    [i \in 1..n |-> IF i <= 2 THEN u16_to_le_bytes(enc)[i] ELSE 16 + i]

HeaderInputs ==
    {HeaderBytes(kv, cv, us, f8, f10) :
        kv \in KindInputs, cv \in CompressionInputs, us \in SizeInputs,
        f8 \in Field8Inputs, f10 \in Field10Inputs}

-----------------------------------------------------------------------------
(* The BlockDeserialiser as a state machine: one action per public method. *)

InitBlock ==
    /\ buf = <<>>
    /\ checksum \in FileChecksums
    /\ overflow_checks \in BOOLEAN
    /\ op = "new"
    /\ res = NoResult
    /\ input \in [header : HeaderInputs, enc : EncodingInputs]

InitTagsIdle ==
    /\ tag_in = 0
    /\ tag_out = [fn |-> "", arg |-> "", bytes |-> <<>>, r |-> NoResult]

InitStreamIdle ==
    /\ stream = [bytes |-> <<>>, ends |-> <<>>]
    /\ fed = 0
    /\ inner = <<>>
    /\ last = [tag |-> "None", err |-> "", n |-> 0,
               block |-> [kind |-> "", compression |-> "", encoding |-> 0,
                          payload |-> [codec |-> "", bytes |-> <<>>],
                          consumed |-> 0]]
    /\ blocks = <<>>
    /\ pc = "idle"

InitInputIdle == input = [header |-> Zeros(12), enc |-> 0]

Init == InitBlock /\ InitTagsIdle /\ InitStreamIdle

\* header_buf(), and the caller writing twelve bytes into the slice.
HeaderBuf ==
    /\ buf' = [i \in 1..Len(header_buf) |-> input.header[i]]
    /\ op' = "header_buf"
    /\ res' = OkBytes(<<>>)
    /\ UNCHANGED <<checksum, overflow_checks, input>>
    /\ UNCHANGED <<tagVars, streamVars>>

\* data_buf(), and the caller writing into the slice buf[12..].
DataBuf ==
    LET additional == block_size(buf, checksum, overflow_checks)
        r == data_buf(buf, checksum, overflow_checks)
    IN
    /\ IsOk(additional) => Len(buf) + additional.num <= MaxBufLen
    /\ op' = "data_buf"
    /\ IF IsOk(r)
       THEN /\ buf' = SubSeq(r.data, 1, 12)
                        \o FillBytes(Len(r.data) - 12, input.enc)
            /\ res' = OkBytes(<<>>)
       ELSE /\ buf' = buf
            /\ res' = r
    /\ UNCHANGED <<checksum, overflow_checks, input>>
    /\ UNCHANGED <<tagVars, streamVars>>

CallKind ==
    /\ op' = "kind"
    /\ res' = kind(buf)
    /\ UNCHANGED <<buf, checksum, overflow_checks, input>>
    /\ UNCHANGED <<tagVars, streamVars>>

CallCompression ==
    /\ op' = "compression"
    /\ res' = compression(buf)
    /\ UNCHANGED <<buf, checksum, overflow_checks, input>>
    /\ UNCHANGED <<tagVars, streamVars>>

CallCompressedSize ==
    /\ op' = "compressed_size"
    /\ res' = compressed_size(buf)
    /\ UNCHANGED <<buf, checksum, overflow_checks, input>>
    /\ UNCHANGED <<tagVars, streamVars>>

CallUncompressedSize ==
    /\ op' = "uncompressed_size"
    /\ res' = uncompressed_size(buf)
    /\ UNCHANGED <<buf, checksum, overflow_checks, input>>
    /\ UNCHANGED <<tagVars, streamVars>>

CallBlockSize ==
    /\ op' = "block_size"
    /\ res' = block_size(buf, checksum, overflow_checks)
    /\ UNCHANGED <<buf, checksum, overflow_checks, input>>
    /\ UNCHANGED <<tagVars, streamVars>>

CallDeserialise ==
    /\ op' = "deserialise"
    /\ res' = deserialise(buf, checksum, overflow_checks)
    /\ UNCHANGED <<buf, checksum, overflow_checks, input>>
    /\ UNCHANGED <<tagVars, streamVars>>

Next ==
    \/ HeaderBuf
    \/ DataBuf
    \/ CallKind
    \/ CallCompression
    \/ CallCompressedSize
    \/ CallUncompressedSize
    \/ CallBlockSize
    \/ CallDeserialise

Spec == Init /\ [][Next]_vars


-----------------------------------------------------------------------------
(* The tag constructors on their own: every 16-bit value is handed to       *)
(* BlockKind::new and CompressionAlgorithm::new, and every variant is       *)
(* written with to_le_bytes and read back with from_le_bytes.               *)

U16Max == 65535

TagResult(f, a, b, r) == [fn |-> f, arg |-> a, bytes |-> b, r |-> r]

InitBlockIdle ==
    /\ buf = <<>>
    /\ checksum = "None"
    /\ overflow_checks = TRUE
    /\ op = "new"
    /\ res = NoResult
    /\ InitInputIdle

InitTags ==
    /\ tag_in \in 0 .. U16Max
    /\ tag_out = TagResult("", "", <<>>, NoResult)
    /\ InitBlockIdle
    /\ InitStreamIdle

NewBlockKind ==
    /\ tag_out' = TagResult("BlockKind::new", "", <<>>, BlockKind_new(tag_in))
    /\ UNCHANGED <<tag_in, blockVars, streamVars>>

NewCompressionAlgorithm ==
    /\ tag_out' = TagResult("CompressionAlgorithm::new", "", <<>>,
                            CompressionAlgorithm_new(tag_in))
    /\ UNCHANGED <<tag_in, blockVars, streamVars>>

RoundTripBlockKind ==
    \E k \in BlockKinds :
        /\ tag_out' = TagResult("BlockKind::from_le_bytes", k,
                                BlockKind_to_le_bytes(k),
                                BlockKind_from_le_bytes(BlockKind_to_le_bytes(k)))
        /\ UNCHANGED <<tag_in, blockVars, streamVars>>

RoundTripCompressionAlgorithm ==
    \E c \in CompressionAlgorithms :
        /\ tag_out' = TagResult("CompressionAlgorithm::from_le_bytes", c,
                                CompressionAlgorithm_to_le_bytes(c),
                                CompressionAlgorithm_from_le_bytes(
                                    CompressionAlgorithm_to_le_bytes(c)))
        /\ UNCHANGED <<tag_in, blockVars, streamVars>>

NextTags ==
    \/ NewBlockKind
    \/ NewCompressionAlgorithm
    \/ RoundTripBlockKind
    \/ RoundTripCompressionAlgorithm

SpecTags == InitTags /\ [][NextTags]_vars


-----------------------------------------------------------------------------
(* The Deserialiser (crate::deserialiser): the incremental buffering        *)
(* protocol.  Its source is not among the files (src/src/tests.rs only      *)
(* calls it), so it is modelled from the design: digest appends to a        *)
(* rolling buffer; deserialise answers MoreBytesRequired(n) while fewer     *)
(* than 12 bytes, or fewer than 12 + block_size() bytes, are buffered, and  *)
(* otherwise takes exactly 12 + block_size() bytes from the front and       *)
(* materializes them.                                                       *)

\* The length arithmetic of the header model on a 12-byte probe window.
header_block_size(b, cs) ==
    LET k == BlockKind_new(u16_from_le_bytes(SubSeq(b, 1, 2)))
        c == CompressionAlgorithm_new(u16_from_le_bytes(SubSeq(b, 3, 4)))
    IN
    IF ~IsOk(k) THEN k
    ELSE IF ~IsOk(c) THEN c
    ELSE LET size == parameter_byte_size(k.str) + checksum_byte_size(cs) IN
         IF c.str = "None"
         THEN OkNum(size - 4 + u32_from_le_bytes(SubSeq(b, 5, 8)))
         ELSE OkNum(size + u32_from_le_bytes(SubSeq(b, 9, 12)))

\* The compression dispatch: None copies; the other codecs are external and
\* are applied to the bytes as received.
decode(c, raw) == [codec |-> c, bytes |-> raw]

NoBlock ==
    [kind |-> "", compression |-> "", encoding |-> 0,
     payload |-> decode("", <<>>), consumed |-> 0]

CallResult(t, e, n, blk) == [tag |-> t, err |-> e, n |-> n, block |-> blk]
NoCall == CallResult("None", "", 0, NoBlock)
MoreBytesRequired(n) == CallResult("MoreBytesRequired", "", n, NoBlock)

\* The materialize step on the bytes of exactly one block.
materialize(b, cs) ==
    LET k == BlockKind_new(u16_from_le_bytes(SubSeq(b, 1, 2)))
        c == CompressionAlgorithm_new(u16_from_le_bytes(SubSeq(b, 3, 4)))
        idx == IF c.str = "None" THEN 8 ELSE 12
        encoding == u16_from_le_bytes(SubSeq(b, idx + 1, idx + 2))
        raw == SubSeq(b, idx + 3, Len(b) - checksum_byte_size(cs))
    IN
    IF k.str \in {"FileMetadata", "SlicerMetadata", "PrinterMetadata",
                  "PrintMetadata"} /\ encoding # 0
    THEN CallResult("Err", "EncodingError", encoding, NoBlock)
    ELSE IF k.str = "Thumbnail" /\ encoding > 2
    THEN CallResult("Err", "EncodingError", encoding, NoBlock)
    ELSE CallResult("Block", "", 0,
                    [kind |-> k.str, compression |-> c.str,
                     encoding |-> encoding, payload |-> decode(c.str, raw),
                     consumed |-> Len(b)])

digest(inn, new_bytes) == inn \o new_bytes

\* deserialise: the result, and the rolling buffer it leaves.
Deserialiser_deserialise(inn, cs) ==
    IF Len(inn) < 12
    THEN [r |-> MoreBytesRequired(12 - Len(inn)), rest |-> inn]
    ELSE
    LET bs == header_block_size(inn, cs) IN
    IF ~IsOk(bs) THEN [r |-> CallResult("Err", bs.err, bs.num, NoBlock), rest |-> inn]
    ELSE
    LET total == 12 + bs.num IN
    IF Len(inn) < total
    THEN [r |-> MoreBytesRequired(total - Len(inn)), rest |-> inn]
    ELSE [r |-> materialize(SubSeq(inn, 1, total), cs),
          rest |-> SubSeq(inn, total + 1, Len(inn))]

-----------------------------------------------------------------------------
(* Files of well-formed blocks.  A block is its header (8 bytes without     *)
(* compression: kind, compression, uncompressed size; 12 with it: the       *)
(* compressed size added), its parameters (2 bytes, the encoding; 6 for a   *)
(* Thumbnail: format, width, height), its payload and its checksum trailer. *)

\* The largest payload of a block of a file.
MaxPayload == 2

BlockBytes(kv, cv, size, enc, cs) ==
    u16_to_le_bytes(kv) \o u16_to_le_bytes(cv)
        \o u32_to_le_bytes(IF cv = 0 THEN size ELSE size + 1)
        \o (IF cv = 0 THEN <<>> ELSE u32_to_le_bytes(size))
        \o u16_to_le_bytes(enc)
        \o (IF kv = 5 THEN <<32, 0, 24, 0>> ELSE <<>>)
        \o [i \in 1..size |-> 64 + i]
        \o (IF cs = "Crc32" THEN <<201, 202, 203, 204>> ELSE <<>>)

\* Every kind with every compression, an empty and a full payload, and the
\* encodings the kind allows.
FirstBlocks(cs) ==
    {BlockBytes(kv, cv, size, enc, cs) :
        kv \in 0 .. 4, cv \in 0 .. 3, size \in {0, MaxPayload}, enc \in {0}}
    \cup
    {BlockBytes(5, cv, size, enc, cs) :
        cv \in 0 .. 3, size \in {0, MaxPayload}, enc \in {0, 2}}

\* The blocks that follow a first block.
SecondBlocks(cs) ==
    {BlockBytes(0, 0, 0, 0, cs), BlockBytes(1, 1, 1, 0, cs),
     BlockBytes(5, 2, MaxPayload, 1, cs)}

StreamInputs(cs) ==
    {[bytes |-> a, ends |-> <<Len(a)>>] : a \in FirstBlocks(cs)}
    \cup
    {[bytes |-> a \o b, ends |-> <<Len(a), Len(a) + Len(b)>>] :
        a \in FirstBlocks(cs), b \in SecondBlocks(cs)}

InitStream ==
    /\ checksum \in FileChecksums
    /\ stream \in StreamInputs(checksum)
    /\ fed = 0
    /\ inner = <<>>
    /\ last = NoCall
    /\ blocks = <<>>
    /\ buf = <<>>
    /\ overflow_checks = TRUE
    /\ op = "new"
    /\ res = NoResult
    /\ InitInputIdle
    /\ InitTagsIdle

\* digest(chunk): the next n bytes of the file, for any n >= 0.
Digest ==
    \E n \in 0 .. (Len(stream.bytes) - fed) :
        /\ inner' = digest(inner, SubSeq(stream.bytes, fed + 1, fed + n))
        /\ fed' = fed + n
        /\ op' = "digest"
        /\ UNCHANGED <<stream, last, blocks, pc>>
        /\ UNCHANGED <<buf, checksum, overflow_checks, res, input, tagVars>>

Deserialise ==
    LET d == Deserialiser_deserialise(inner, checksum) IN
    /\ inner' = d.rest
    /\ last' = d.r
    /\ blocks' = IF d.r.tag = "Block" THEN Append(blocks, d.r.block) ELSE blocks
    /\ op' = "deserialise"
    /\ UNCHANGED <<stream, fed, pc>>
    /\ UNCHANGED <<buf, checksum, overflow_checks, res, input, tagVars>>

InitChunked == InitStream /\ pc = "chunked"

NextChunked == Digest \/ Deserialise

SpecChunked == InitChunked /\ [][NextChunked]_vars

-----------------------------------------------------------------------------
(* The loop of deser_test_file: digest the whole file, then call            *)
(* deserialise().unwrap() until it answers MoreBytesRequired.               *)

InitDrain == InitStream /\ pc = "start"

DigestFile ==
    /\ pc = "start"
    /\ inner' = digest(inner, stream.bytes)
    /\ fed' = Len(stream.bytes)
    /\ op' = "digest"
    /\ pc' = "loop"
    /\ UNCHANGED <<stream, last, blocks>>
    /\ UNCHANGED <<buf, checksum, overflow_checks, res, input, tagVars>>

LoopDeserialise ==
    LET d == Deserialiser_deserialise(inner, checksum) IN
    /\ pc = "loop"
    /\ inner' = d.rest
    /\ last' = d.r
    /\ blocks' = IF d.r.tag = "Block" THEN Append(blocks, d.r.block) ELSE blocks
    /\ op' = "deserialise"
    /\ pc' = CASE d.r.tag = "MoreBytesRequired" -> "done"
               [] d.r.tag = "Block" -> "loop"
               [] OTHER -> "panicked"
    /\ UNCHANGED <<stream, fed>>
    /\ UNCHANGED <<buf, checksum, overflow_checks, res, input, tagVars>>

NextDrain == DigestFile \/ LoopDeserialise

\* The loop is one thread running to its end: it always takes its next step.
SpecDrain == InitDrain /\ [][NextDrain]_vars /\ WF_vars(NextDrain)

-----------------------------------------------------------------------------
(* What the statements below read off a buffer, taken from the byte layout  *)
(* and not from the decoder's own operators.                                *)

TagAt(b, i) == b[i + 1] + 256 * b[i + 2]
SizeAt(b, i) == b[i + 1] + 256 * b[i + 2] + 65536 * b[i + 3] + 16777216 * b[i + 4]
TagsValid(b) == Len(b) >= 12 /\ TagAt(b, 0) \in 0 .. 5 /\ TagAt(b, 2) \in 0 .. 3
ParameterWidth(b) == IF TagAt(b, 0) = 5 THEN 6 ELSE 2
TrailerWidth(cs) == IF cs = "Crc32" THEN 4 ELSE 0
ExpectedBlockSize(b, cs) ==
    IF TagAt(b, 2) = 0
    THEN ParameterWidth(b) + TrailerWidth(cs) - 4 + SizeAt(b, 4)
    ELSE ParameterWidth(b) + TrailerWidth(cs) + SizeAt(b, 8)
CorrectlySized(b, cs) == TagsValid(b) /\ Len(b) = 12 + ExpectedBlockSize(b, cs)
IsTextKind(b) == TagAt(b, 0) \in {0, 2, 3, 4}
IsThumbnail(b) == TagAt(b, 0) = 5
\* The encoding tag deserialise reads: at offset 8 without compression, 12 with.
EncodingTag(b) == IF TagAt(b, 2) = 0 THEN TagAt(b, 8) ELSE TagAt(b, 12)
KindName(v) ==
    CASE v = 0 -> "FileMetadata" [] v = 1 -> "GCode" [] v = 2 -> "SlicerMetadata"
      [] v = 3 -> "PrinterMetadata" [] v = 4 -> "PrintMetadata"
      [] v = 5 -> "Thumbnail"
CompressionName(v) ==
    CASE v = 0 -> "None" [] v = 1 -> "Deflate" [] v = 2 -> "Heatshrink11_4"
      [] v = 3 -> "Heatshrink12_4"

-----------------------------------------------------------------------------
(* C1.  With valid kind and compression tags, in either checksum mode,      *)
(* block_size returns parameter_width + trailer_width - 4 +                 *)
(* uncompressed_size without compression and parameter_width +              *)
(* trailer_width + compressed_size with it, as an unsigned value reached    *)
(* without a step below zero (no overflow panic, no wrapped result).        *)
C1_BlockSizeFormula ==
    (op = "block_size" /\ TagsValid(buf)) =>
        /\ res.tag = "Ok"
        /\ res.num >= 0
        /\ res.num = ExpectedBlockSize(buf, checksum)

(* C2.  On a buffer of length 12 + block_size() with valid tags (any of the *)
(* six kinds, any of the four compression algorithms), deserialise returns  *)
(* a payload or an error value; it never aborts.                            *)
C2_DeserialiseNeverAborts ==
    (op = "deserialise" /\ CorrectlySized(buf, checksum)) =>
        res.tag \in {"Ok", "Err"}

(* C3.  On a buffer shorter than 12 bytes (the empty buffer of a fresh      *)
(* BlockDeserialiser included), an accessor whose byte range is not inside  *)
(* the buffer returns the TryFromSliceError value instead of aborting.      *)
C3_ShortBufferIsTypedError ==
    /\ (op = "kind" /\ Len(buf) < 2) => res = Err("TryFromSliceError", 0)
    /\ (op = "compression" /\ Len(buf) < 4) => res = Err("TryFromSliceError", 0)
    /\ (op = "uncompressed_size" /\ Len(buf) < 8)
          => res = Err("TryFromSliceError", 0)
    /\ (op = "compressed_size" /\ Len(buf) < 12)
          => res = Err("TryFromSliceError", 0)

(* C4.  With valid tags in the first 12 bytes, after any header_buf and     *)
(* data_buf calls, deserialise returns DataLengthMissMatch exactly when the *)
(* buffer length differs from 12 + block_size(), and decodes a payload only *)
(* from a buffer of that length.                                            *)
C4_LengthMismatchIffWrongLength ==
    (op = "deserialise" /\ TagsValid(buf)) =>
        /\ (res = Err("DataLengthMissMatch", 0))
              <=> (Len(buf) # 12 + ExpectedBlockSize(buf, checksum))
        /\ res.tag = "Ok" => Len(buf) = 12 + ExpectedBlockSize(buf, checksum)

(* C5.  For a text-metadata or Thumbnail block without compression, with a  *)
(* valid encoding tag and a buffer of length 12 + block_size(), deserialise *)
(* returns exactly uncompressed_size bytes: the bytes of the buffer that    *)
(* end where the checksum trailer begins, unchanged and in order.           *)
C5_UncompressedPayloadIsCopied ==
    (/\ op = "deserialise"
     /\ CorrectlySized(buf, checksum)
     /\ TagAt(buf, 2) = 0
     /\ \/ IsTextKind(buf) /\ EncodingTag(buf) = 0
        \/ IsThumbnail(buf) /\ EncodingTag(buf) \in 0 .. 2) =>
        /\ res.tag = "Ok"
        /\ Len(res.data) = SizeAt(buf, 4)
        /\ res.data = SubSeq(buf,
                             Len(buf) - TrailerWidth(checksum) - SizeAt(buf, 4) + 1,
                             Len(buf) - TrailerWidth(checksum))

(* C6.  On a correctly sized block, deserialise of a text-metadata kind     *)
(* fails with EncodingError(t) for every encoding tag t other than 0 and    *)
(* not with EncodingError for t = 0; of a Thumbnail it fails with           *)
(* EncodingError(t) for every t above 2 and not with EncodingError for t in *)
(* 0..2; the error carries the tag read.                                    *)
C6_EncodingTagIsValidated ==
    (op = "deserialise" /\ CorrectlySized(buf, checksum)) =>
        /\ (IsTextKind(buf) /\ EncodingTag(buf) # 0)
              => res = Err("EncodingError", EncodingTag(buf))
        /\ (IsTextKind(buf) /\ EncodingTag(buf) = 0) => res.err # "EncodingError"
        /\ (IsThumbnail(buf) /\ EncodingTag(buf) > 2)
              => res = Err("EncodingError", EncodingTag(buf))
        /\ (IsThumbnail(buf) /\ EncodingTag(buf) <= 2)
              => res.err # "EncodingError"

(* C7.  BlockKind::new(v) succeeds exactly for v in 0..5, giving            *)
(* FileMetadata, GCode, SlicerMetadata, PrinterMetadata, PrintMetadata,     *)
(* Thumbnail, and otherwise returns UnsupportedBlockKind(v);                *)
(* CompressionAlgorithm::new(v) succeeds exactly for v in 0..3 and          *)
(* otherwise returns UnsupportedCompressionAlgorithm(v); no unknown value   *)
(* becomes a variant.                                                       *)
C7_UnknownTagsRejected ==
    /\ tag_out.fn = "BlockKind::new" =>
          IF tag_in \in 0 .. 5
          THEN tag_out.r = OkVariant(KindName(tag_in))
          ELSE tag_out.r = Err("UnsupportedBlockKind", tag_in)
    /\ tag_out.fn = "CompressionAlgorithm::new" =>
          IF tag_in \in 0 .. 3
          THEN tag_out.r = OkVariant(CompressionName(tag_in))
          ELSE tag_out.r = Err("UnsupportedCompressionAlgorithm", tag_in)

C7_Witness ==
    \/ /\ tag_out.fn = "BlockKind::new"
       /\ tag_in = 6
       /\ tag_out.r.tag = "Err"
    \/ /\ tag_out.fn = "CompressionAlgorithm::new"
       /\ tag_in = U16Max
       /\ tag_out.r.tag = "Err"

(* C10.  Tags round-trip: from_le_bytes(k.to_le_bytes()) returns k for      *)
(* every BlockKind k and every CompressionAlgorithm c.                      *)
C10_TagRoundTrip ==
    tag_out.fn \in {"BlockKind::from_le_bytes",
                    "CompressionAlgorithm::from_le_bytes"}
        => tag_out.r = OkVariant(tag_out.arg)


-----------------------------------------------------------------------------
(* What the statements about the Deserialiser read off the file. *)

BlockStart(i) == IF i = 1 THEN 0 ELSE stream.ends[i - 1]
BlockEnd(i) == stream.ends[i]
FileBlock(i) == SubSeq(stream.bytes, BlockStart(i) + 1, BlockEnd(i))
HeaderWidth(b) == IF TagAt(b, 2) = 0 THEN 8 ELSE 12

RECURSIVE ConsumedUpTo(_)
ConsumedUpTo(i) == IF i = 0 THEN 0 ELSE ConsumedUpTo(i - 1) + blocks[i].consumed
ConsumedBytes == ConsumedUpTo(Len(blocks))

\* The blocks returned when the whole file is digested in one call and
\* deserialise is then called until it returns no block.
RECURSIVE DrainAll(_, _)
DrainAll(inn, cs) ==
    LET d == Deserialiser_deserialise(inn, cs) IN
    IF d.r.tag = "Block" THEN <<d.r.block>> \o DrainAll(d.rest, cs) ELSE <<>>
DigestedAtOnce == DrainAll(digest(<<>>, stream.bytes), checksum)

C9_Safe ==
    /\ pc # "panicked"
    /\ last.tag # "Err"
    /\ Len(blocks) <= Len(stream.ends)
    /\ \A i \in 1 .. Len(blocks) :
          /\ blocks[i].consumed
                = 12 + ExpectedBlockSize(
                           SubSeq(stream.bytes, BlockStart(i) + 1,
                                  Len(stream.bytes)), checksum)
          /\ blocks[i].consumed = BlockEnd(i) - BlockStart(i)
          /\ blocks[i].kind = KindName(TagAt(FileBlock(i), 0))
          /\ blocks[i].payload.bytes
                = SubSeq(FileBlock(i), HeaderWidth(FileBlock(i)) + 3,
                         Len(FileBlock(i)) - TrailerWidth(checksum))
    /\ inner = SubSeq(stream.bytes, ConsumedBytes + 1, fed)
    /\ (pc = "loop" /\ op = "deserialise") => last.tag = "Block"
    /\ pc = "done" =>
          /\ last.tag = "MoreBytesRequired"
          /\ \/ Len(blocks) = Len(stream.ends)
             \/ Len(blocks) = Len(stream.ends) - 1 /\ Len(inner) < 12

====
